---- MODULE Spec2Model ----
(***************************************************************************)
(* Model of the network visualization core of m3u-library-manager:         *)
(*   NetworkVisualization (core/network.js)  - selection state machine,    *)
(*       serialized transition queue, updateData / cleanup lifecycle       *)
(*   NetworkRenderer (core/renderer.js)      - elements, color animation   *)
(*   NetworkSimulation (core/simulation.js)  - force layout run            *)
(*   EventManager (core/events.js)           - publish / subscribe         *)
(*   DataProcessor (core/data-processor.js)  - processed nodes and edges   *)
(*   QtBridge (bridge.js)                    - handshake with the host     *)
(* JavaScript is single threaded: every action below is one synchronous    *)
(* block (a host call, a DOM event handler, a timer callback or a promise  *)
(* continuation).  Promise continuations wait in the FIFO microtask queue  *)
(* and timers and user events are only served when that queue is empty.    *)
(***************************************************************************)
EXTENDS Integers, Sequences, FiniteSets, TLC

VARIABLES
    viz,          \* the NetworkVisualization object (network.js:9-35)
    renderer,     \* the NetworkRenderer object      (renderer.js:4-31)
    simulation,   \* the NetworkSimulation object    (simulation.js:4-19)
    microtasks,   \* FIFO queue of promise continuations that are ready to run
    timers,       \* pending setTimeout(duration) callbacks of animateColorTransition
    obs,          \* what the last synchronous block did (events emitted, descriptors queued)
    hist,         \* history: calls made, descriptors started, colors seen at selection
    events,       \* an EventManager object            (events.js:3-41)
    evObs,        \* what the last EventManager call did, and the registrations in force
    bridge,       \* the QtBridge object               (bridge.js:6-15)
    handshakes,   \* the promise, timeout and poll chain of every initialize() that started one
    host,         \* the page's window as the host application fills it
    brObs,        \* what the last zoom gesture led to
    raw,          \* the nodes and edges handed to DataProcessor.processData
    processed,    \* what processData returned and logged for them
    scene         \* the node elements of a renderer's node layer and their data join

vars == <<viz, renderer, simulation, microtasks, timers, obs, hist, events, evObs,
          bridge, handshakes, host, brObs, raw, processed, scene>>

\* the variables of the DataProcessor
dataVars == <<raw, processed>>

\* the variables of the renderer's scene
sceneVars == <<scene>>

\* the variables of the bridge and its host
bridgeVars == <<bridge, handshakes, host, brObs>>

\* the variables of the EventManager
eventVars == <<events, evObs>>

\* the variables of the controller, its renderer and its layout engine
coreVars == <<viz, renderer, simulation, microtasks, timers, obs, hist>>

----------------------------------------------------------------------------
(* Bounds of the model *)

MaxUpdates == 2        \* updateData calls made by the host
MaxTransitions == 4    \* descriptors passed to _queueTransition
MaxCreations == 3      \* node elements created for one node id
MaxRestarts == 2       \* handshakes started where initialize() follows cleanup()

(* Input domains *)
NodeIds == {"a", "b"}
Colors == {"red", "blue"}
PossibleEdges == { <<"a", "b">> }

Null == "null"
Undefined == "undefined"

NoColors == [x \in {} |-> "red"]
EmptyData == [color |-> NoColors, edges |-> <<>>]

\* processed datasets (the output of DataProcessor.processData): a color per
\* node id and the list of edges whose two endpoints resolve.  Node "a" is in
\* every dataset with either color; node "b", when present, is blue; the
\* edge a-b is present or not.
NodeColorings ==
    { ("a" :> c) : c \in Colors } \cup { ("a" :> c) @@ ("b" :> "blue") : c \in Colors }

Datasets ==
    { [color |-> c, edges |-> e] :
        c \in NodeColorings,
        e \in { <<>> } \cup { <<p>> : p \in PossibleEdges } }

WellFormed(d) == \A i \in 1..Len(d.edges) :
                    d.edges[i][1] \in DOMAIN d.color /\ d.edges[i][2] \in DOMAIN d.color

ProcessedData == { d \in Datasets : WellFormed(d) }

----------------------------------------------------------------------------
(* The world a synchronous block works on *)

World == [viz |-> viz, ren |-> renderer, sim |-> simulation, mt |-> microtasks,
          timers |-> timers, obs |-> obs, hist |-> hist, exc |-> FALSE]

Commit(w) ==
    /\ viz' = w.viz
    /\ renderer' = w.ren
    /\ simulation' = w.sim
    /\ microtasks' = w.mt
    /\ timers' = w.timers
    /\ obs' = [w.obs EXCEPT !.threw = w.exc]
    /\ hist' = w.hist
    /\ UNCHANGED <<eventVars, bridgeVars, dataVars, sceneVars>>

NoObs(op) == [op |-> op, emitted |-> <<>>, queued |-> <<>>, started |-> <<>>,
              threw |-> FALSE, outcome |-> "none", call |-> 0, preSelected |-> <<>>]

Begin(op) == [World EXCEPT !.obs = NoObs(op)]

Throw(w) == [w EXCEPT !.exc = TRUE]

Task(k, call, data, seq, outcome) ==
    [k |-> k, call |-> call, data |-> data, seq |-> seq, outcome |-> outcome]

SeqHas(s, x) == \E i \in 1..Len(s) : s[i] = x
SeqAdd(s, x) == IF SeqHas(s, x) THEN s ELSE Append(s, x)
SeqDel(s, x) == SelectSeq(s, LAMBDA y : y # x)
Range(s) == { s[i] : i \in 1..Len(s) }

----------------------------------------------------------------------------
(* EventManager (core/events.js) as the controller uses it *)

\* this.events.emit(name, ...): a TypeError when this.events is null
emit(w, name) ==
    IF w.exc THEN w
    ELSE IF w.viz.events = Null THEN Throw(w)
    ELSE [w EXCEPT !.obs.emitted = Append(@, name)]

----------------------------------------------------------------------------
(* EventManager (core/events.js) on its own.  listeners maps an event name   *)
(* to its Set of callbacks, kept as the sequence of the Set's insertion      *)
(* order, which is the order forEach visits.                                 *)

EventNames == {"nodeSelected", "zoomChanged"}
Callbacks == {"f", "g", "h"}
Throwing == {"g"}          \* callbacks that throw whenever they are called

NoListeners == [n \in {} |-> <<>>]

\* events.js:4-6
NewEventManager == [listeners |-> NoListeners]

\* fault: the callback is put in front of the ones already registered
eventsOnFront(em, name, cb) ==
    LET l == em.listeners
        cur == IF name \in DOMAIN l THEN l[name] ELSE <<>>
    IN [em EXCEPT !.listeners =
           (name :> (IF SeqHas(cur, cb) THEN cur ELSE <<cb>> \o cur)) @@ l]

\* events.js:8-14: Set.add keeps the place of a callback that is already in
eventsOn(em, name, cb) ==
    LET l == em.listeners
        cur == IF name \in DOMAIN l THEN l[name] ELSE <<>>
    IN [em EXCEPT !.listeners = (name :> SeqAdd(cur, cb)) @@ l]

\* fault: off() discards the whole entry of the event name
eventsOffDropsName(em, name, cb) ==
    [em EXCEPT !.listeners = [n \in DOMAIN @ \ {name} |-> @[n]]]

\* events.js:16-22
eventsOff(em, name, cb) ==
    IF name \in DOMAIN em.listeners
    THEN [em EXCEPT !.listeners[name] = SeqDel(@, cb)]
    ELSE em

\* events.js:28-34: the forEach over the callbacks; r.invoked lists the
\* callbacks called so far, r.propagated tells that an exception left emit
RECURSIVE invokeAll(_, _)
invokeAll(cbs, r) ==
    IF cbs = <<>> THEN r
    ELSE invokeAll(Tail(cbs), [r EXCEPT !.invoked = Append(@, Head(cbs))])

\* fault: no try/catch around callback(data)
RECURSIVE invokeAllNoCatch(_, _)
invokeAllNoCatch(cbs, r) ==
    IF cbs = <<>> THEN r
    ELSE LET r1 == [r EXCEPT !.invoked = Append(@, Head(cbs))]
         IN IF Head(cbs) \in Throwing THEN [r1 EXCEPT !.propagated = TRUE]
            ELSE invokeAllNoCatch(Tail(cbs), r1)

eventsEmitNoCatch(em, name) ==
    invokeAllNoCatch(IF name \in DOMAIN em.listeners THEN em.listeners[name] ELSE <<>>,
                     [invoked |-> <<>>, propagated |-> FALSE])

\* events.js:24-36: a callback that throws is caught at line 31 and logged,
\* the forEach goes on with the next one
eventsEmit(em, name) ==
    invokeAll(IF name \in DOMAIN em.listeners THEN em.listeners[name] ELSE <<>>,
              [invoked |-> <<>>, propagated |-> FALSE])

\* events.js:38-40
eventsCleanup(em) == [em EXCEPT !.listeners = NoListeners]

\* nothing observed yet, no registration in force.  order lists the pairs
\* <<name, callback>> in force, oldest registration first; again is the
\* pair on() was last called for while it was in force (<<>> when none, or
\* when off() took that pair out)
NoEvObs == [op |-> "new", name |-> Null, cb |-> Null, invoked |-> <<>>,
            propagated |-> FALSE, removed |-> FALSE, repeated |-> FALSE,
            order |-> <<>>, again |-> <<>>, anyOff |-> FALSE]

----------------------------------------------------------------------------
(* QtBridge (bridge.js).  Time is counted in polling intervals: one tick is  *)
(* the 100 ms of the setTimeout(checkBridge, 100) of line 98.                *)

MaxHandshakes == 1           \* initialize() calls that start a handshake

timeoutMs == 5000            \* bridge.js:72
pollMs == 100                \* bridge.js:98
TimeoutTicks == timeoutMs \div pollMs

\* bridge.js:7-11
NewBridge == [bridge |-> FALSE, events |-> FALSE, isInitialized |-> FALSE, promise |-> 0]

\* the world a step of the bridge works on
BridgeWorld == [b |-> bridge, hs |-> handshakes, host |-> host]

\* resolve() / reject(..) of the executor of lines 69-103: a promise settles once
resolve(x, id) ==
    IF x.hs[id].state = "pending" THEN [x EXCEPT !.hs[id].state = "resolved"] ELSE x

reject(x, id, reason) ==
    IF x.hs[id].state = "pending"
    THEN [x EXCEPT !.hs[id].state = "rejected", !.hs[id].reason = reason] ELSE x

\* bridge.js:74-100, one call of checkBridge of handshake id
checkBridge(x0, id) ==
    LET x == IF x0.hs[id].state = "rejected" /\ x0.hs[id].reason = "timeout"
             THEN [x0 EXCEPT !.hs[id].retried = TRUE] ELSE x0
    IN
    IF x.host.bridge                              \* window.bridge && window.events
    THEN resolve([x EXCEPT !.hs[id].timeout = FALSE,      \* clearTimeout(timeout)
                           !.b.bridge = TRUE, !.b.events = TRUE,
                           !.b.isInitialized = TRUE], id)
    ELSE IF x.host.qt                             \* window.qt && qt.webChannelTransport
    THEN [x EXCEPT !.hs[id].channel = TRUE]       \* new QWebChannel(transport, callback)
    ELSE [x EXCEPT !.hs[id].poll = "waiting"]     \* setTimeout(checkBridge, 100)

\* bridge.js:83-96: the callback given to QWebChannel runs; found tells
\* whether the channel has the objects networkHandler and networkEvents
channelCallback(x, id, found) ==
    IF found
    THEN resolve([x EXCEPT !.hs[id].timeout = FALSE,
                           !.b.bridge = TRUE, !.b.events = TRUE,
                           !.host.bridge = TRUE,
                           !.b.isInitialized = TRUE], id)
    ELSE reject(x, id, "handlers")

\* fault: the timeout of lines 70-72 is not armed
NewHandshakeNoTimeout == [state |-> "pending", reason |-> "none", age |-> 0,
                          timeout |-> FALSE, poll |-> "none", channel |-> FALSE,
                          retried |-> FALSE]

\* a handshake as the executor of line 69 leaves it before checkBridge():
\* promise pending, the 5000 ms timeout armed.  age counts the ticks since
\* then, as long as the promise is pending or the timeout is armed; retried
\* tells that checkBridge ran after the promise was rejected by the timeout.
NewHandshake == [state |-> "pending", reason |-> "none", age |-> 0,
                 timeout |-> TRUE, poll |-> "none", channel |-> FALSE,
                 retried |-> FALSE]

\* bridge.js:64-106
bridgeInitialize(x) ==
    IF x.b.promise # 0 THEN x
    ELSE LET id == Len(x.hs) + 1
         IN checkBridge([x EXCEPT !.hs = Append(@, NewHandshake), !.b.promise = id], id)

\* bridge.js:242-247
bridgeCleanup(x) == [x EXCEPT !.b = NewBridge]

\* bridge.js:70-72: the timeout callback
timeoutCallback(x, id) == reject([x EXCEPT !.hs[id].timeout = FALSE], id, "timeout")

\* the methods a QtBridge object has (bridge.js:17-247)
BridgeMethods == {"initialize", "nodeSelected", "nodeHovered", "Changed",
                  "stabilizationProgress", "stabilizationComplete",
                  "handleError", "cleanup"}

\* bridge.js:143-151: Changed(scale) hands the scale to the host's
\* events.zoomChanged when the bridge is initialized
bridgeChanged(b) ==
    [forwarded |-> b.isInitialized /\ b.events, threw |-> FALSE]

\* initialization.js:170-172, the listener NetworkManager registers for
\* 'zoomChanged': this.bridge.zoomChanged(scale).  QtBridge has no member of
\* that name, the call of undefined throws a TypeError.
managerOnZoomChanged(b) ==
    IF "zoomChanged" \in BridgeMethods
    THEN bridgeChanged(b)
    ELSE [forwarded |-> FALSE, threw |-> TRUE]

NoBrObs == [op |-> "none", emitted |-> FALSE, forwarded |-> FALSE]

\* the age of a handshake is kept while its promise is pending or its timeout
\* is armed
atRest(h) == IF h.state # "pending" /\ ~h.timeout THEN [h EXCEPT !.age = 0] ELSE h

BridgeCommit(x) ==
    /\ bridge' = x.b
    /\ handshakes' = [id \in 1..Len(x.hs) |-> atRest(x.hs[id])]
    /\ host' = x.host
    /\ brObs' = NoBrObs
    /\ UNCHANGED <<coreVars, eventVars, dataVars, sceneVars>>

\* the QtBridge is constructed, the host has put nothing in window yet
BridgeInit ==
    /\ bridge = NewBridge
    /\ handshakes = <<>>
    /\ host = [bridge |-> FALSE, qt |-> FALSE]
    /\ brObs = NoBrObs

----------------------------------------------------------------------------
(* DataProcessor (core/data-processor.js).  Of a processed node the model    *)
(* keeps id, value, size and metadata.degree, of a processed edge from, to   *)
(* and the two node objects it was resolved to.  A size is a fraction        *)
(* <<numerator, denominator>>.                                               *)

MaxNodes == 2          \* length of the nodes array
MaxEdges == 2          \* length of the edges array

RawIds == {"a", "b"}                 \* ids of input nodes
EdgeEnds == {"a", "b", "x"}          \* from / to of input edges; no node has id "x"
NodeValues == {0, 1, 3}

SeqsUpTo(S, n) == UNION { [1..k -> S] : k \in 0..n }

RawNodes == [id : RawIds, value : NodeValues]
RawEdges == [from : EdgeEnds, to : EdgeEnds]

RawInputs == [nodes : SeqsUpTo(RawNodes, MaxNodes), edges : SeqsUpTo(RawEdges, MaxEdges)]

\* node records as the host may send them: the id or the label may be
\* missing (undefined)
Labels == {"L", Undefined}
RawRecords == [id : RawIds \cup {Undefined}, label : Labels, value : {1, 3}]
RecordInputs == [nodes : SeqsUpTo(RawRecords, MaxNodes), edges : {<<>>}]

\* data-processor.js:111-128: nodeDegrees after _calculateNodeDegrees(edges)
RECURSIVE calculateNodeDegrees(_, _)
calculateNodeDegrees(edges, deg) ==
    IF edges = <<>> THEN deg
    ELSE LET e == Head(edges)
             get(m, key) == IF key \in DOMAIN m THEN m[key] ELSE 0
             d1 == (e.from :> get(deg, e.from) + 1) @@ deg
             d2 == (e.to :> get(d1, e.to) + 1) @@ d1
         IN calculateNodeDegrees(Tail(edges), d2)

minSize == 12          \* data-processor.js:70
maxSize == 48          \* data-processor.js:71

SeqMax(vs) == CHOOSE m \in Range(vs) : \A v \in Range(vs) : v <= m
SeqMin(vs) == CHOOSE m \in Range(vs) : \A v \in Range(vs) : m <= v

\* data-processor.js:60-109 for numeric values: d3.scaleLinear().domain(
\* [minValue, maxValue]).range([minSize, maxSize]).clamp(true) applied to
\* value, where minValue and maxValue are taken over d.value of all nodes
calculateNodeSize(value, allNodes) ==
    LET vs == [i \in 1..Len(allNodes) |-> allNodes[i].value]
    IN IF Len(allNodes) = 1 THEN <<minSize, 1>>
       ELSE IF SeqMax(vs) = SeqMin(vs) THEN <<minSize + maxSize, 2>>
       ELSE LET lo == SeqMin(vs)
                hi == SeqMax(vs)
                v == IF value < lo THEN lo ELSE IF value > hi THEN hi ELSE value
            IN <<minSize * (hi - lo) + (maxSize - minSize) * (v - lo), hi - lo>>

\* node.value || 1 of line 24: the value 0 is falsy
valueOrOne(v) == IF v = 0 THEN 1 ELSE v

\* data-processor.js:22-45: one processed node per input node, in order:
\* the fields of the input node (...node) with size and degree added.  No
\* node is tested or left out.
processNodes(nodes, deg) ==
    [i \in 1..Len(nodes) |->
        [size |-> calculateNodeSize(valueOrOne(nodes[i].value), nodes),
         degree |-> IF nodes[i].id \in DOMAIN deg THEN deg[nodes[i].id] ELSE 0]
        @@ nodes[i]]

\* data-processor.js:155: new Map(processedNodes.map(node => [node.id, node])),
\* a later node replaces an earlier one with the same id
RECURSIVE nodeMapOf(_, _)
nodeMapOf(pnodes, m) ==
    IF pnodes = <<>> THEN m
    ELSE nodeMapOf(Tail(pnodes), (Head(pnodes).id :> Head(pnodes)) @@ m)

NoNodeMap == [x \in {} |-> 0]

\* fault: line 161 tests the source only
RECURSIVE processEdgesSourceOnly(_, _, _)
processEdgesSourceOnly(edges, nodeMap, r) ==
    IF edges = <<>> THEN r
    ELSE LET e == Head(edges)
         IN IF e.from \notin DOMAIN nodeMap
            THEN processEdgesSourceOnly(Tail(edges), nodeMap,
                                        [r EXCEPT !.errors = Append(@, e)])
            ELSE processEdgesSourceOnly(Tail(edges), nodeMap,
                     [r EXCEPT !.edges = Append(@,
                         [from |-> e.from, to |-> e.to, source |-> nodeMap[e.from],
                          target |-> IF e.to \in DOMAIN nodeMap THEN nodeMap[e.to]
                                     ELSE nodeMap[e.from]])])

\* data-processor.js:157-183: edges.map(..).filter(edge => edge !== null);
\* r.edges collects the edges kept, r.errors the ones logged at line 162
RECURSIVE processEdges(_, _, _)
processEdges(edges, nodeMap, r) ==
    IF edges = <<>> THEN r
    ELSE LET e == Head(edges)
         IN IF e.from \notin DOMAIN nodeMap \/ e.to \notin DOMAIN nodeMap
            THEN processEdges(Tail(edges), nodeMap, [r EXCEPT !.errors = Append(@, e)])
            ELSE processEdges(Tail(edges), nodeMap,
                     [r EXCEPT !.edges = Append(@,
                         [from |-> e.from, to |-> e.to,
                          source |-> nodeMap[e.from], target |-> nodeMap[e.to]])])

\* data-processor.js:11-20
processData(nodes, edges) ==
    LET deg == calculateNodeDegrees(edges, NoNodeMap)
        pnodes == processNodes(nodes, deg)
        r == processEdges(edges, nodeMapOf(pnodes, NoNodeMap),
                          [edges |-> <<>>, errors |-> <<>>])
    IN [done |-> TRUE, nodes |-> pnodes, edges |-> r.edges, errors |-> r.errors]

NotProcessed == [done |-> FALSE, nodes |-> <<>>, edges |-> <<>>, errors |-> <<>>]

\* data-processor.js:6-9: a new DataProcessor, nothing given to it yet
DataInit ==
    /\ raw = [nodes |-> <<>>, edges |-> <<>>]
    /\ processed = NotProcessed

----------------------------------------------------------------------------
(* NetworkRenderer: the data join of updateElements.  A node element is the  *)
(* <g class="node"> created for a node id; gen tells the how-manieth element *)
(* created for that id it is, r and fill are the attributes of its circle,   *)
(* datum is the processed node bound to it.                                   *)

Sizes == {minSize, maxSize}

\* the processed nodes given to updateElements: ids are unique, each node
\* has a size and a color
NodeSets ==
    UNION { [S -> [size : Sizes, color : Colors]] : S \in SUBSET NodeIds }

NoNodes == [x \in {} |-> [size |-> minSize, color |-> "red"]]

\* renderer.js:10-31: no elements before the first updateElements
NewScene == [nodeElements |-> {}, made |-> [id \in NodeIds |-> 0], nodes |-> NoNodes]

SceneInit == scene = NewScene

\* fault: every element is removed and a new one is appended for every node
updateElementsRecreates(sc, nodes) ==
    [sc EXCEPT !.nodeElements =
                   { [id |-> id, gen |-> sc.made[id] + 1, r |-> nodes[id].size,
                      fill |-> nodes[id].color, datum |-> nodes[id]] :
                     id \in DOMAIN nodes },
               !.made = [id \in NodeIds |-> IF id \in DOMAIN nodes THEN @[id] + 1 ELSE @[id]],
               !.nodes = nodes]

\* renderer.js:116-131: selectAll('.node').data(nodes, d => d.id) binds each
\* node to the element whose datum has the same id; exit().remove() removes
\* the elements left without a node; enter().append('g') creates an element
\* for each node left without one, and _createNodeVisuals (290-312) gives
\* only those a circle with r = d.size and fill = d.color; merge() changes
\* no attribute.
updateElements(sc, nodes) ==
    LET kept == { e \in sc.nodeElements : e.id \in DOMAIN nodes }
        update == { [e EXCEPT !.datum = nodes[e.id]] : e \in kept }
        enterIds == { id \in DOMAIN nodes : \A e \in kept : e.id # id }
        enter == { [id |-> id, gen |-> sc.made[id] + 1, r |-> nodes[id].size,
                    fill |-> nodes[id].color, datum |-> nodes[id]] : id \in enterIds }
    IN [sc EXCEPT !.nodeElements = update \cup enter,
                  !.made = [id \in NodeIds |-> IF id \in enterIds THEN @[id] + 1 ELSE @[id]],
                  !.nodes = nodes]

----------------------------------------------------------------------------
(* NetworkRenderer *)

\* renderer.js:18: this.transform = null
NoTransform == 0

\* zoom scales in tenths, within .scaleExtent([0.1, 4]) of renderer.js:351
ZoomScales == {1, 10, 40}

\* renderer.js:352-355, the 'zoom' listener of d3.zoom(): it stores and
\* applies the transform; no callback of this.callbacks is invoked for it
\* (the renderer has none for zoom), so it reports no event to the controller
rendererZoom(ren, k) == [ren EXCEPT !.transform = k]

\* the events the controller emits on its EventManager for a zoom gesture:
\* network.js has no emit of 'zoomChanged' (its emits are at lines 62, 66,
\* 83, 89, 95, 100, 149, 170 and 243)
zoomEvents(k) == <<>>

\* renderer.js:278-288: the neighbours of nodeId, in edge order, each once
RECURSIVE connectedOf(_, _, _)
connectedOf(edges, nodeId, acc) ==
    IF edges = <<>> THEN acc
    ELSE LET e == Head(edges)
             acc1 == IF e[1] = nodeId THEN SeqAdd(acc, e[2])
                     ELSE IF e[2] = nodeId THEN SeqAdd(acc, e[1])
                     ELSE acc
         IN connectedOf(Tail(edges), nodeId, acc1)

getConnectedNodes(ren, nodeId) == connectedOf(ren.data.edges, nodeId, <<>>)

\* network.js:246-248 can be evaluated: the renderer reference is set and
\* its edgeElements are not null
CanGetConnected(w) == w.viz.renderer # Null /\ w.ren.hasData

\* renderer.js:173-175
connectedEdges(ren, nodeId) ==
    SelectSeq(ren.data.edges, LAMBDA e : e[1] = nodeId \/ e[2] = nodeId)

\* renderer.js:161-209.  The executor of the returned promise
\*  - throws a TypeError when nodeElements is null (line 163),
\*  - starts the fill transition of the node's circle (lines 167-170; a new
\*    transition on an element interrupts the one running on it),
\*  - throws a ReferenceError in the callback of the first incident edge:
\*    lines 180-181 read the block-scoped const targetColor before it is
\*    initialized, whichever endpoint nodeId is,
\*    initialized, so the setTimeout of lines 193-199 that would start the
\*    next node of connectedNodes is never armed (and with no incident edge
\*    connectedNodes is empty),
\*  - otherwise arms the setTimeout(duration) that resolves it (204-207).
\* An animation records the node whose fill transition runs, the descriptor
\* it belongs to and the connectedNodes the call was given.
\* A throw inside the executor rejects the promise.
animateColorTransition(w, t) ==
    LET started == [w EXCEPT !.hist.started = Append(@, t.seq),
                             !.obs.started = Append(@, t.seq)]
        rejected(x) == [x EXCEPT !.mt = Append(@, Task("transition", 0, EmptyData, t.seq, "rejected"))]
    IN IF ~w.ren.hasData THEN rejected(started)
       ELSE LET present == t.nodeId \in DOMAIN w.ren.data.color
                anim == IF present
                        THEN { a \in w.ren.animations : a.node # t.nodeId }
                                 \cup { [node |-> t.nodeId, seq |-> t.seq,
                                           wave |-> t.connectedNodes] }
                        ELSE w.ren.animations
                w1 == [started EXCEPT !.ren.animations = anim]
            IN IF connectedEdges(w.ren, t.nodeId) # <<>>
               THEN rejected(w1)
               ELSE [w1 EXCEPT !.timers = @ \cup {t.seq}]

----------------------------------------------------------------------------
(* NetworkVisualization: transition queue *)

RECURSIVE processTransitionQueue(_)

\* fault: line 209 (this.isTransitioning = true) left out
processTransitionQueueNoFlag(w) ==
    IF w.viz.isTransitioning \/ w.viz.transitionQueue = <<>> THEN w
    ELSE LET t == Head(w.viz.transitionQueue)
             w1 == [w EXCEPT !.viz.transitionQueue = Tail(@)]
         IN IF w1.viz.renderer = Null
            THEN processTransitionQueue(w1)
            ELSE animateColorTransition(w1, t)

\* network.js:206-225, up to the await
processTransitionQueue(w) ==
    IF w.viz.isTransitioning \/ w.viz.transitionQueue = <<>> THEN w
    ELSE LET t == Head(w.viz.transitionQueue)
             w1 == [w EXCEPT !.viz.isTransitioning = TRUE,
                             !.viz.transitionQueue = Tail(@)]
         IN IF w1.viz.renderer = Null
            THEN \* this.renderer.animateColorTransition throws a TypeError
                 \* before anything is awaited: caught at line 219, then 223-224
                 processTransitionQueue([w1 EXCEPT !.viz.isTransitioning = FALSE])
            ELSE animateColorTransition(w1, t)

\* fault: line 224 (the call of _processTransitionQueue after the await) left out
afterTransitionNoRestart(w, outcome) == [w EXCEPT !.viz.isTransitioning = FALSE]

\* fault: no try/catch around the await, a rejection ends the function
afterTransitionNoCatch(w, outcome) ==
    IF outcome = "rejected" THEN w
    ELSE processTransitionQueue([w EXCEPT !.viz.isTransitioning = FALSE])

\* network.js:212-224, from the await on: the promise settled with outcome
afterTransition(w, outcome) ==
    processTransitionQueue([w EXCEPT !.viz.isTransitioning = FALSE])

\* network.js:199-204
queueTransition(w, t) ==
    LET d == [t EXCEPT !.seq = w.hist.nQueued + 1]
        w1 == [w EXCEPT !.viz.transitionQueue = Append(@, d),
                        !.hist.nQueued = @ + 1,
                        !.obs.queued = Append(@, d)]
    IN IF ~w1.viz.isTransitioning THEN processTransitionQueue(w1) ELSE w1

Descriptor(type, nodeId, targetColor, connectedNodes) ==
    [type |-> type, nodeId |-> nodeId, targetColor |-> targetColor,
     connectedNodes |-> connectedNodes, seq |-> 0]

----------------------------------------------------------------------------
(* NetworkVisualization: selection state machine *)

\* network.js:227-236: one restore descriptor per selected id, in the
\* insertion order of the Set
RECURSIVE restoreLoop(_, _)
restoreLoop(w, ids) ==
    IF ids = <<>> \/ w.exc THEN w
    ELSE IF ~CanGetConnected(w) THEN Throw(w)
    ELSE LET id == Head(ids)
             target == IF id \in DOMAIN w.viz.originalColors
                       THEN w.viz.originalColors[id] ELSE Undefined
         IN restoreLoop(
                queueTransition(w, Descriptor("restore", id, target,
                                              getConnectedNodes(w.ren, id))),
                Tail(ids))

\* fault: line 239 (this.selectedNodes.clear()) left out
restoreAllColorsKeepsSelection(w) ==
    LET w1 == restoreLoop(w, w.viz.selectedNodes)
    IN IF w1.exc THEN w1
       ELSE emit([w1 EXCEPT !.viz.selectionColor = Null], "selectionCleared")

\* network.js:227-244
restoreAllColors(w) ==
    LET w1 == restoreLoop(w, w.viz.selectedNodes)
    IN IF w1.exc THEN w1
       ELSE emit([w1 EXCEPT !.viz.selectedNodes = <<>>,
                            !.viz.selectionColor = Null],
                 "selectionCleared")

\* the rest of _selectNode, lines 137-149
selectNodeRest(w2, node) ==
    IF ~CanGetConnected(w2) THEN Throw(w2)
    ELSE LET w3 == queueTransition(w2,
                      Descriptor("select", node.id, w2.viz.selectionColor,
                                 getConnectedNodes(w2.ren, node.id)))
             w4 == [w3 EXCEPT !.viz.selectedNodes = SeqAdd(@, node.id)]
         IN emit(w4, "nodeSelected")

\* fault: the guard of line 133 left out, every select sets selectionColor
selectNodeAlwaysSetsColor(w, node) ==
    LET w1 == [w EXCEPT !.viz.originalColors =
                   IF node.id \in DOMAIN @ THEN @ ELSE @ @@ (node.id :> node.color)]
    IN selectNodeRest([w1 EXCEPT !.viz.selectionColor = node.color], node)

\* fault: the guard of line 128 left out, every select overwrites originalColors
selectNodeOverwritesOriginal(w, node) ==
    LET w1 == [w EXCEPT !.viz.originalColors = (node.id :> node.color) @@ @]
    IN selectNodeRest([w1 EXCEPT !.viz.selectionColor =
                           IF Len(w1.viz.selectedNodes) = 0 THEN node.color ELSE @], node)

\* network.js:126-150; node is the datum bound to the clicked element
selectNode(w, node) ==
    LET w1 == [w EXCEPT !.viz.originalColors =
                   IF node.id \in DOMAIN @ THEN @ ELSE @ @@ (node.id :> node.color)]
        w2 == [w1 EXCEPT !.viz.selectionColor =
                   IF Len(w1.viz.selectedNodes) = 0 THEN node.color ELSE @]
    IN selectNodeRest(w2, node)

\* fault: unselecting deletes the node's entry of originalColors
unselectNodeForgets(w, node) ==
    IF ~CanGetConnected(w) THEN Throw(w)
    ELSE LET target == IF node.id \in DOMAIN w.viz.originalColors
                       THEN w.viz.originalColors[node.id] ELSE Undefined
             w1 == queueTransition(w,
                      Descriptor("unselect", node.id, target,
                                 getConnectedNodes(w.ren, node.id)))
             w2 == [w1 EXCEPT !.viz.selectedNodes = SeqDel(@, node.id),
                              !.viz.originalColors =
                                  [x \in DOMAIN @ \ {node.id} |-> @[x]]]
             w3 == IF Len(w2.viz.selectedNodes) = 0 THEN restoreAllColors(w2) ELSE w2
         IN emit(w3, "nodeUnselected")

\* fault: nodeUnselected is emitted before the selection is restored
unselectNodeEmitsFirst(w, node) ==
    IF ~CanGetConnected(w) THEN Throw(w)
    ELSE LET target == IF node.id \in DOMAIN w.viz.originalColors
                       THEN w.viz.originalColors[node.id] ELSE Undefined
             w1 == queueTransition(w,
                      Descriptor("unselect", node.id, target,
                                 getConnectedNodes(w.ren, node.id)))
             w2 == emit([w1 EXCEPT !.viz.selectedNodes = SeqDel(@, node.id)],
                        "nodeUnselected")
         IN IF Len(w2.viz.selectedNodes) = 0 THEN restoreAllColors(w2) ELSE w2

\* network.js:152-171
unselectNode(w, node) ==
    IF ~CanGetConnected(w) THEN Throw(w)
    ELSE LET target == IF node.id \in DOMAIN w.viz.originalColors
                       THEN w.viz.originalColors[node.id] ELSE Undefined
             w1 == queueTransition(w,
                      Descriptor("unselect", node.id, target,
                                 getConnectedNodes(w.ren, node.id)))
             w2 == [w1 EXCEPT !.viz.selectedNodes = SeqDel(@, node.id)]
             w3 == IF Len(w2.viz.selectedNodes) = 0 THEN restoreAllColors(w2) ELSE w2
         IN emit(w3, "nodeUnselected")

\* network.js:114-124
handleNodeClick(w, node) ==
    IF SeqHas(w.viz.selectedNodes, node.id)
    THEN unselectNode(w, node)
    ELSE selectNode(w, node)

\* fault: the guard of line 194 left out
handleBackgroundClickUnguarded(w) == restoreAllColors(w)

\* network.js:193-197
handleBackgroundClick(w) ==
    IF Len(w.viz.selectedNodes) > 0 THEN restoreAllColors(w) ELSE w

----------------------------------------------------------------------------
(* NetworkSimulation *)

maxTicks == 300                \* simulation.js:10
alphaDecayPermille == 20       \* .alphaDecay(0.02), simulation.js:46
alphaMinMillionths == 1000     \* .alphaMin(0.001), simulation.js:47
AlphaOne == 1000 * 1000        \* alpha = 1 in millionths

\* new NetworkSimulation(width, height): simulation.js:4-19 and 21-55; the
\* d3 timer is stopped at the end of _initialize (line 53)
\* alpha is kept in millionths; callbacks tells which of the three callbacks
\* are registered; completions counts the calls of callbacks.complete since
\* the last restart() and progress is the last value given to callbacks.progress;
\* stopped tells that stop() was called and restart() has not been since
NewSimulation ==
    [isRunning |-> FALSE, tickCount |-> 0, timerOn |-> FALSE,
     hasData |-> FALSE, nodes |-> {}, edges |-> <<>>,
     callbacks |-> [tick |-> FALSE, progress |-> FALSE, complete |-> FALSE],
     alpha |-> AlphaOne \div 2, completions |-> 0, progress |-> 0,
     stopped |-> FALSE]

\* simulation.js:138-148, as called from network.js:54-67
registerCallbacks(s) ==
    [s EXCEPT !.callbacks = [tick |-> TRUE, progress |-> TRUE, complete |-> TRUE]]

\* fault: stop() clears isRunning and leaves the d3 timer going
simStopKeepsTimer(s) == [s EXCEPT !.isRunning = FALSE, !.stopped = TRUE]

\* simulation.js:105-109
simStop(s) == [s EXCEPT !.isRunning = FALSE, !.timerOn = FALSE, !.stopped = TRUE]

\* simulation.js:57-79
simSetData(s, d) ==
    [s EXCEPT !.hasData = TRUE, !.nodes = DOMAIN d.color, !.edges = d.edges,
              !.tickCount = 0]

\* simulation.js:98-103
simRestart(s) == [s EXCEPT !.isRunning = TRUE, !.tickCount = 0, !.timerOn = TRUE,
                            !.alpha = AlphaOne, !.completions = 0, !.progress = 0,
                            !.stopped = FALSE]

\* simulation.js:130-136
onSimulationEnd(s) ==
    [s EXCEPT !.isRunning = FALSE,
              !.completions = IF s.callbacks.complete THEN @ + 1 ELSE @]

\* simulation.js:111-128
onTick(s) ==
    IF ~s.isRunning THEN s
    ELSE LET n == s.tickCount + 1
             p == (200 * n + maxTicks) \div (2 * maxTicks)   \* Math.round(n / maxTicks * 100)
             s1 == [s EXCEPT !.tickCount = n,
                             !.progress = IF ~s.callbacks.progress THEN @
                                          ELSE IF p > 100 THEN 100 ELSE p]
         IN IF n >= maxTicks THEN onSimulationEnd(s1) ELSE s1

\* one step of the d3 timer of the force simulation created in
\* simulation.js:23-51: alpha decays by alphaDecay, the 'tick' listener
\* (line 50) runs, and when alpha is below alphaMin the timer stops and the
\* 'end' listener (line 51) runs.  (In millionths with integer division
\* alpha passes alphaMin at step 344, in exact arithmetic at step 342.)
d3Step(s) ==
    LET a == s.alpha - (s.alpha * alphaDecayPermille) \div 1000
        s1 == onTick([s EXCEPT !.alpha = a])
    IN IF a < alphaMinMillionths
       THEN onSimulationEnd([s1 EXCEPT !.timerOn = FALSE])
       ELSE s1

----------------------------------------------------------------------------
(* Hover and drag.  The renderer keeps in dimmed the ids of the node         *)
(* elements whose latest opacity transition goes to 0.3; all other elements  *)
(* are at, or on their way to, opacity 1.                                     *)

\* renderer.js:20: the renderer's own selectedNodes Set.  Nothing adds to it
\* (the controller's selection is a different Set, network.js:17); it is only
\* read at line 237 and cleared at line 433.
rendererSelectedNodes == {}

\* renderer.js:234-259
highlightNodes(r, nodes) ==
    LET all == DOMAIN r.data.color
        d1 == r.dimmed \cup { d \in all : d \notin rendererSelectedNodes }
    IN [r EXCEPT !.dimmed = d1 \ Range(nodes)]

\* renderer.js:261-276
clearHighlights(r, excludeNodes) ==
    [r EXCEPT !.dimmed = { d \in @ : d \in Range(excludeNodes) }]

\* network.js:173-186
handleNodeHover(w, node) ==
    IF ~CanGetConnected(w) THEN Throw(w)
    ELSE LET connectedNodes == getConnectedNodes(w.ren, node.id)
             unselectedConnections ==
                 SelectSeq(connectedNodes, LAMBDA n : ~SeqHas(w.viz.selectedNodes, n))
         IN IF Len(w.viz.selectedNodes) > 0
            THEN [w EXCEPT !.ren = highlightNodes(@, unselectedConnections)]
            ELSE [w EXCEPT !.ren = highlightNodes(@, connectedNodes)]

\* network.js:188-191
handleNodeLeave(w) ==
    IF ~CanGetConnected(w) THEN Throw(w)
    ELSE [w EXCEPT !.ren = clearHighlights(@, w.viz.selectedNodes)]

\* the methods a NetworkSimulation object has (simulation.js:3-149)
SimulationMethods == {"_initialize", "setData", "on", "restart", "stop",
                      "_onTick", "_onSimulationEnd", "onTick",
                      "onStabilizationProgress", "onStabilizationComplete"}

\* network.js:250-256: 'start' calls this.simulation.fixNode(node), 'end'
\* calls this.simulation.unfixNode(node), 'drag' calls nothing.  Calling a
\* member the object does not have, or any member of null, throws a
\* TypeError.
handleNodeDrag(w, type, node) ==
    LET method == IF type = "start" THEN "fixNode"
                  ELSE IF type = "end" THEN "unfixNode" ELSE "none"
    IN IF method = "none" THEN w
       ELSE IF w.viz.simulation = Null \/ method \notin SimulationMethods
       THEN Throw(w)
       ELSE w

----------------------------------------------------------------------------
(* NetworkVisualization: lifecycle *)

\* a call of updateData settles: its promise is resolved or rejected
settle(w, call, outcome) ==
    [w EXCEPT !.obs.outcome = outcome,
              !.hist.initAfterCleanup =
                  IF outcome = "initFailed" /\ w.hist.cleaned THEN "failed" ELSE @]

\* fault: the update starts from a cleared selection
updateBodyClearsSelection(w, call, d) ==
    IF w.viz.renderer = Null THEN settle(w, call, "rejected")
    ELSE [w EXCEPT !.ren.hasData = TRUE, !.ren.data = d,
                   !.ren.dimmed = @ \cap DOMAIN d.color,
                   !.viz.selectedNodes = <<>>, !.viz.selectionColor = Null,
                   !.mt = Append(@, Task("updateElements", call, d, 0, "none"))]

\* network.js:265-279: processData, then renderer.updateElements up to the
\* await; a TypeError (renderer is null) is caught at 296 and rethrown
updateBody(w, call, d) ==
    IF w.viz.renderer = Null THEN settle(w, call, "rejected")
    ELSE [w EXCEPT !.ren.hasData = TRUE, !.ren.data = d,
                   !.ren.dimmed = @ \cap DOMAIN d.color,
                   !.mt = Append(@, Task("updateElements", call, d, 0, "none"))]

\* network.js:44-49: _initialize up to the await on renderer.initialize()
\* (renderer.js:33-73 appends one svg to the container).  With renderer
\* null, line 49 throws, the catch at 73 rethrows and the call is rejected.
initializeStart(w, call, d) ==
    IF w.viz.renderer = Null THEN settle(w, call, "initFailed")
    ELSE [w EXCEPT !.ren.svgs = @ + 1,
                   !.mt = Append(@, Task("init", call, d, 0, "none"))]

\* network.js:52-72: the rest of _initialize
initializeRest(w) ==
    [w EXCEPT !.sim = registerCallbacks(NewSimulation),
              !.viz.simulation = "ref",
              !.viz.isInitialized = TRUE]

\* network.js:259-263
updateDataStart(w, call, d) ==
    IF ~w.viz.isInitialized THEN initializeStart(w, call, d)
    ELSE updateBody(w, call, d)

\* network.js:282-294: after the await on updateElements
updateDataRest(w, call, d) ==
    IF w.viz.simulation = Null THEN settle(w, call, "rejected")
    ELSE settle([w EXCEPT !.sim = simRestart(simSetData(simStop(@), d))],
                call, "resolved")

\* renderer.js:424-437
rendererCleanup(r) ==
    [r EXCEPT !.svgs = IF @ > 0 THEN @ - 1 ELSE 0,
              !.hasData = FALSE, !.data = EmptyData, !.dimmed = {}]

\* fault: the guards of lines 316, 323 and 330 left out: stop() is called on
\* a null reference, the TypeError is caught at 345 and rethrown
cleanupUnguarded(w) ==
    IF w.viz.simulation = Null THEN Throw(w)
    ELSE LET w1 == [w EXCEPT !.sim = simStop(@), !.viz.simulation = Null]
         IN IF w1.viz.renderer = Null THEN Throw(w1)
            ELSE LET w2 == [w1 EXCEPT !.ren = rendererCleanup(@), !.viz.renderer = Null]
                 IN IF w2.viz.events = Null THEN Throw(w2)
                    ELSE [w2 EXCEPT !.viz.events = Null,
                                    !.viz.selectedNodes = <<>>,
                                    !.viz.originalColors = NoColors,
                                    !.viz.transitionQueue = <<>>,
                                    !.viz.isInitialized = FALSE]

\* network.js:311-349
cleanup(w) ==
    LET w1 == IF w.viz.simulation # Null
              THEN [w EXCEPT !.sim = simStop(@), !.viz.simulation = Null] ELSE w
        w2 == IF w1.viz.renderer # Null
              THEN [w1 EXCEPT !.ren = rendererCleanup(@), !.viz.renderer = Null] ELSE w1
        w3 == IF w2.viz.events # Null
              THEN [w2 EXCEPT !.viz.events = Null] ELSE w2
    IN [w3 EXCEPT !.viz.selectedNodes = <<>>,
                  !.viz.originalColors = NoColors,
                  !.viz.transitionQueue = <<>>,
                  !.viz.isInitialized = FALSE]

----------------------------------------------------------------------------
(* Initial state: the constructor has returned (network.js:9-35).  Its call *)
(* of _initialize() ran renderer.initialize() and waits at the await.       *)

CoreInit ==
    /\ viz = [isInitialized |-> FALSE, renderer |-> "ref", simulation |-> "ref",
              events |-> "ref", selectedNodes |-> <<>>, selectionColor |-> Null,
              originalColors |-> NoColors, transitionQueue |-> <<>>,
              isTransitioning |-> FALSE]
    /\ renderer = [svgs |-> 1, hasData |-> FALSE, data |-> EmptyData,
                   animations |-> {}, transform |-> NoTransform,
                   dimmed |-> {}]
    /\ simulation = NewSimulation
    /\ microtasks = << Task("init", 0, EmptyData, 0, "none") >>
    /\ timers = {}
    /\ obs = NoObs("constructor")
    /\ hist = [nQueued |-> 0, nCalls |-> 0, started |-> <<>>,
               firstColor |-> Null, firstNode |-> Null, firstLeft |-> FALSE,
               firstSel |-> NoColors, preSel |-> NoColors,
               cleaned |-> FALSE, initAfterCleanup |-> "none"]

EventsInit ==
    /\ events = NewEventManager
    /\ evObs = NoEvObs

Init == CoreInit /\ EventsInit /\ BridgeInit /\ DataInit /\ SceneInit

----------------------------------------------------------------------------
(* Actions *)

\* a click on the element of node n (renderer.js:337-340 hands the bound
\* datum to the nodeClick callback)
NodeClick(n) ==
    /\ microtasks = <<>>
    /\ viz.renderer # Null /\ renderer.hasData /\ n \in DOMAIN renderer.data.color
    /\ hist.nQueued < MaxTransitions
    /\ LET node == [id |-> n, color |-> renderer.data.color[n]]
           selecting == ~SeqHas(viz.selectedNodes, n)
           w == handleNodeClick(Begin("nodeClick"), node)
           h == w.hist
           h1 == IF selecting
                 THEN [h EXCEPT !.preSel = (n :> node.color) @@ @,
                                !.firstSel = @ @@ (n :> node.color),
                                !.firstColor = IF viz.selectedNodes = <<>>
                                               THEN node.color ELSE @,
                                !.firstNode = IF viz.selectedNodes = <<>> THEN n ELSE @]
                 ELSE [h EXCEPT !.firstLeft = @ \/ n = h.firstNode]
           h2 == IF w.viz.selectedNodes = <<>>
                 THEN [h1 EXCEPT !.firstColor = Null, !.firstNode = Null, !.firstLeft = FALSE]
                 ELSE h1
       IN Commit([w EXCEPT !.hist = h2])

\* a click on the background (renderer.js:60-64, network.js:106-110)
BackgroundClick ==
    /\ microtasks = <<>>
    /\ LET w == handleBackgroundClick(Begin("backgroundClick"))
       IN Commit([w EXCEPT !.obs.preSelected = viz.selectedNodes,
                           !.hist.firstColor = Null, !.hist.firstNode = Null,
                           !.hist.firstLeft = FALSE])

\* the host calls updateData(nodes, edges); d is what processData returns
UpdateData(d) ==
    /\ hist.nCalls < MaxUpdates
    /\ LET call == hist.nCalls + 1
           w0 == [Begin("updateData") EXCEPT !.hist.nCalls = call, !.obs.call = call]
       IN Commit(updateDataStart(w0, call, d))

\* the host calls cleanup()
Cleanup ==
    /\ TRUE
    /\ LET w == cleanup(Begin("cleanup"))
       IN Commit([w EXCEPT !.hist.firstColor = Null, !.hist.firstNode = Null,
                        !.hist.firstLeft = FALSE, !.hist.firstSel = NoColors,
                        !.hist.preSel = NoColors, !.hist.cleaned = TRUE])

\* continuation of _initialize after `await this.renderer.initialize()`
InitResume ==
    /\ microtasks # <<>> /\ Head(microtasks).k = "init"
    /\ LET t == Head(microtasks)
           w0 == [Begin("initResume") EXCEPT !.mt = Tail(@), !.obs.call = t.call]
           w1 == initializeRest(w0)
       IN Commit(IF t.call = 0 THEN w1
                 ELSE [w1 EXCEPT !.mt = Append(@, Task("updateInit", t.call, t.data, 0, "none"))])

\* continuation of updateData after `await this._initialize()`
UpdateAfterInit ==
    /\ microtasks # <<>> /\ Head(microtasks).k = "updateInit"
    /\ LET t == Head(microtasks)
           w0 == [Begin("updateAfterInit") EXCEPT !.mt = Tail(@), !.obs.call = t.call]
       IN Commit(updateBody(w0, t.call, t.data))

\* continuation of updateData after `await this.renderer.updateElements(..)`
UpdateAfterElements ==
    /\ microtasks # <<>> /\ Head(microtasks).k = "updateElements"
    /\ LET t == Head(microtasks)
           w0 == [Begin("updateAfterElements") EXCEPT !.mt = Tail(@), !.obs.call = t.call]
       IN Commit(updateDataRest(w0, t.call, t.data))

\* continuation of _processTransitionQueue after the awaited promise settled
TransitionResume ==
    /\ microtasks # <<>> /\ Head(microtasks).k = "transition"
    /\ LET t == Head(microtasks)
           w0 == [Begin("transitionResume") EXCEPT !.mt = Tail(@), !.obs.call = t.seq,
                                                   !.obs.outcome = t.outcome]
       IN Commit(afterTransition(w0, t.outcome))

\* the setTimeout(duration) of renderer.js:204-207 fires: the node's step is
\* over, the fill transition started with it has run its duration, the
\* promise is resolved
TimerFires(seq) ==
    /\ microtasks = <<>>
    /\ seq \in timers
    /\ LET w0 == Begin("timerFires")
       IN Commit([w0 EXCEPT !.timers = @ \ {seq},
                            !.ren.animations = { a \in @ : a.seq # seq },
                            !.obs.call = seq,
                            !.mt = Append(@, Task("transition", 0, EmptyData, seq, "resolved"))])

\* a fill transition whose promise was rejected runs out its duration
AnimationEnds(a) ==
    /\ microtasks = <<>>
    /\ a \in renderer.animations
    /\ a.seq \notin timers
    /\ LET w0 == Begin("animationEnds")
       IN Commit([w0 EXCEPT !.ren.animations = @ \ {a}, !.obs.call = a.seq])

Next ==
    \/ \E n \in NodeIds : NodeClick(n)
    \/ BackgroundClick
    \/ \E d \in ProcessedData : UpdateData(d)
    \/ Cleanup
    \/ InitResume
    \/ UpdateAfterInit
    \/ UpdateAfterElements
    \/ TransitionResume
    \/ \E seq \in timers : TimerFires(seq)
    \/ \E a \in renderer.animations : AnimationEnds(a)

Spec == Init /\ [][Next]_vars

----------------------------------------------------------------------------
(* The layout engine on its own: its public operations and the d3 timer *)

SimFrame == UNCHANGED <<viz, renderer, microtasks, timers, obs, hist, eventVars, bridgeVars, dataVars, sceneVars>>

\* simulation.setData(nodes, edges)
SimSetData ==
    /\ \E d \in ProcessedData : simulation' = simSetData(simulation, d)
    /\ SimFrame

\* simulation.restart()
SimRestart == simulation' = simRestart(simulation) /\ SimFrame

\* simulation.stop()
SimStop == simulation' = simStop(simulation) /\ SimFrame

\* the d3 timer calls step()
SimStep == simulation.timerOn /\ simulation' = d3Step(simulation) /\ SimFrame

NextSim == SimSetData \/ SimRestart \/ SimStop \/ SimStep

\* the controller has finished _initialize: the engine is constructed and its
\* callbacks are registered (network.js:53-67)
InitSim ==
    /\ viz = [isInitialized |-> TRUE, renderer |-> "ref", simulation |-> "ref",
              events |-> "ref", selectedNodes |-> <<>>, selectionColor |-> Null,
              originalColors |-> NoColors, transitionQueue |-> <<>>,
              isTransitioning |-> FALSE]
    /\ renderer = [svgs |-> 1, hasData |-> FALSE, data |-> EmptyData,
                   animations |-> {}, transform |-> NoTransform,
                   dimmed |-> {}]
    /\ simulation = registerCallbacks(NewSimulation)
    /\ microtasks = <<>>
    /\ timers = {}
    /\ obs = NoObs("initResume")
    /\ hist = [nQueued |-> 0, nCalls |-> 0, started |-> <<>>,
               firstColor |-> Null, firstNode |-> Null, firstLeft |-> FALSE,
               firstSel |-> NoColors, preSel |-> NoColors,
               cleaned |-> FALSE, initAfterCleanup |-> "none"]
    /\ EventsInit
    /\ BridgeInit
    /\ DataInit
    /\ SceneInit

SpecSim == InitSim /\ [][NextSim]_vars

----------------------------------------------------------------------------
(* The controller after a first updateData(d) has resolved: clicks, cleanup  *)
(* and the transitions they queue.  Promise continuations always run and     *)
(* armed timers always fire.                                                 *)

InitLive ==
    /\ viz = [isInitialized |-> TRUE, renderer |-> "ref", simulation |-> "ref",
              events |-> "ref", selectedNodes |-> <<>>, selectionColor |-> Null,
              originalColors |-> NoColors, transitionQueue |-> <<>>,
              isTransitioning |-> FALSE]
    /\ \E d \in ProcessedData :
          /\ renderer = [svgs |-> 1, hasData |-> TRUE, data |-> d,
                         animations |-> {}, transform |-> NoTransform,
                   dimmed |-> {}]
          /\ simulation = simRestart(simSetData(simStop(registerCallbacks(NewSimulation)), d))
    /\ microtasks = <<>>
    /\ timers = {}
    /\ obs = [NoObs("updateAfterElements") EXCEPT !.outcome = "resolved", !.call = 1]
    /\ hist = [nQueued |-> 0, nCalls |-> 1, started |-> <<>>,
               firstColor |-> Null, firstNode |-> Null, firstLeft |-> FALSE,
               firstSel |-> NoColors, preSel |-> NoColors,
               cleaned |-> FALSE, initAfterCleanup |-> "none"]
    /\ EventsInit
    /\ BridgeInit
    /\ DataInit
    /\ SceneInit

NextLive ==
    \/ \E n \in NodeIds : NodeClick(n)
    \/ BackgroundClick
    \/ Cleanup
    \/ TransitionResume
    \/ \E seq \in timers : TimerFires(seq)
    \/ \E a \in renderer.animations : AnimationEnds(a)

SpecLive ==
    /\ InitLive /\ [][NextLive]_vars
    /\ WF_vars(TransitionResume)
    /\ WF_vars(\E seq \in timers : TimerFires(seq))

----------------------------------------------------------------------------
(* The controller after a first updateData(d) has resolved, under clicks,    *)
(* hovering and dragging                                                      *)

\* the pointer enters the element of node n (renderer.js:341-343)
NodeHover(n) ==
    /\ microtasks = <<>>
    /\ viz.renderer # Null /\ renderer.hasData /\ n \in DOMAIN renderer.data.color
    /\ LET node == [id |-> n, color |-> renderer.data.color[n]]
       IN Commit(handleNodeHover(Begin("nodeHover"), node))

\* the pointer leaves a node element
NodeLeave ==
    /\ microtasks = <<>>
    /\ viz.renderer # Null /\ renderer.hasData
    /\ Commit(handleNodeLeave(Begin("nodeLeave")))

DragTypes == {"start", "drag", "end"}

\* a drag gesture on the element of node n reports type (renderer.js:314-333)
NodeDrag(type, n) ==
    /\ microtasks = <<>>
    /\ viz.renderer # Null /\ renderer.hasData /\ n \in DOMAIN renderer.data.color
    /\ LET node == [id |-> n, color |-> renderer.data.color[n]]
           w0 == [Begin("nodeDrag") EXCEPT !.obs.outcome = type]
       IN Commit(handleNodeDrag(w0, type, node))

NextPointer ==
    \/ \E n \in NodeIds : NodeClick(n)
    \/ \E n \in NodeIds : NodeHover(n)
    \/ NodeLeave
    \/ \E type \in DragTypes : \E n \in NodeIds : NodeDrag(type, n)
    \/ TransitionResume
    \/ \E seq \in timers : TimerFires(seq)
    \/ \E a \in renderer.animations : AnimationEnds(a)

SpecPointer == InitLive /\ [][NextPointer]_vars

----------------------------------------------------------------------------
(* The EventManager on its own: on, off, emit and cleanup called in any order *)

\* events.on(name, cb)
On(name, cb) ==
    /\ events' = eventsOn(events, name, cb)
    /\ LET p == <<name, cb>>
           was == SeqHas(evObs.order, p)
       IN evObs' = [evObs EXCEPT !.op = "on", !.name = name, !.cb = cb,
                                 !.invoked = <<>>, !.propagated = FALSE,
                                 !.removed = FALSE, !.repeated = FALSE,
                                 !.order = SeqAdd(@, p),
                                 !.again = IF was THEN p ELSE @]
    /\ UNCHANGED <<coreVars, bridgeVars, dataVars, sceneVars>>

\* events.off(name, cb)
Off(name, cb) ==
    /\ events' = eventsOff(events, name, cb)
    /\ LET p == <<name, cb>>
           was == SeqHas(evObs.order, p)
       IN evObs' = [evObs EXCEPT !.op = "off", !.name = name, !.cb = cb,
                                 !.invoked = <<>>, !.propagated = FALSE,
                                 !.removed = was, !.repeated = (evObs.again = p),
                                 !.order = SeqDel(@, p),
                                 !.again = IF @ = p THEN <<>> ELSE @,
                                 !.anyOff = @ \/ was]
    /\ UNCHANGED <<coreVars, bridgeVars, dataVars, sceneVars>>

\* events.emit(name, data)
Emit(name) ==
    /\ events' = events
    /\ LET r == eventsEmit(events, name)
       IN evObs' = [evObs EXCEPT !.op = "emit", !.name = name, !.cb = Null,
                                 !.invoked = r.invoked, !.propagated = r.propagated,
                                 !.removed = FALSE, !.repeated = FALSE]
    /\ UNCHANGED <<coreVars, bridgeVars, dataVars, sceneVars>>

\* events.cleanup()
EventsCleanup ==
    /\ events' = eventsCleanup(events)
    /\ evObs' = [NoEvObs EXCEPT !.op = "cleanup"]
    /\ UNCHANGED <<coreVars, bridgeVars, dataVars, sceneVars>>

NextEvents ==
    \/ \E name \in EventNames, cb \in Callbacks : On(name, cb)
    \/ \E name \in EventNames, cb \in Callbacks : Off(name, cb)
    \/ \E name \in EventNames : Emit(name)
    \/ EventsCleanup

SpecEvents == Init /\ [][NextEvents]_vars

----------------------------------------------------------------------------
(* The bridge handshake: the page calls initialize() and cleanup(), the host *)
(* fills window at any time or never, timers fire when they are due.         *)

\* the page calls bridge.initialize()
BridgeInitialize ==
    /\ bridge.promise = 0 => Len(handshakes) < MaxHandshakes
    /\ LET x == bridgeInitialize(BridgeWorld)
       IN BridgeCommit(x)

\* the page calls bridge.cleanup()
BridgeCleanup ==
    /\ bridge # NewBridge
    /\ BridgeCommit(bridgeCleanup(BridgeWorld))

\* the host application sets window.bridge and window.events
HostInjects ==
    /\ ~host.bridge
    /\ BridgeCommit([BridgeWorld EXCEPT !.host.bridge = TRUE])

\* the web channel transport (window.qt.webChannelTransport) becomes available
TransportAppears ==
    /\ ~host.qt
    /\ BridgeCommit([BridgeWorld EXCEPT !.host.qt = TRUE])

\* the timeout of handshake id is due: it was armed TimeoutTicks ago
TimeoutFires(id) ==
    /\ handshakes[id].timeout /\ handshakes[id].age >= TimeoutTicks
    /\ BridgeCommit(timeoutCallback(BridgeWorld, id))

\* a poll of handshake id is due; a timeout of the same handshake that is
\* due too was armed earlier and runs first
Poll(id) ==
    /\ handshakes[id].poll = "due"
    /\ ~(handshakes[id].timeout /\ handshakes[id].age >= TimeoutTicks)
    /\ BridgeCommit(checkBridge([BridgeWorld EXCEPT !.hs[id].poll = "none"], id))

\* the web channel calls back, with or without the two objects
ChannelCallback(id, found) ==
    /\ handshakes[id].channel
    /\ BridgeCommit(channelCallback([BridgeWorld EXCEPT !.hs[id].channel = FALSE], id, found))

\* 100 ms pass; timers that are due run before more time passes
Tick ==
    /\ \A id \in 1..Len(handshakes) :
          /\ ~(handshakes[id].timeout /\ handshakes[id].age >= TimeoutTicks)
          /\ handshakes[id].poll # "due"
    /\ \E id \in 1..Len(handshakes) :
          handshakes[id].state = "pending" \/ handshakes[id].timeout
              \/ handshakes[id].poll = "waiting"
    /\ LET aged(h) == [h EXCEPT !.age = IF (h.state = "pending" \/ h.timeout)
                                           /\ h.age <= TimeoutTicks
                                        THEN @ + 1 ELSE @,
                                !.poll = IF @ = "waiting" THEN "due" ELSE @]
       IN BridgeCommit([BridgeWorld EXCEPT
                           !.hs = [id \in 1..Len(handshakes) |-> aged(handshakes[id])]])

NextBridge ==
    \/ BridgeInitialize
    \/ BridgeCleanup
    \/ HostInjects
    \/ TransportAppears
    \/ \E id \in 1..Len(handshakes) : TimeoutFires(id)
    \/ \E id \in 1..Len(handshakes) : Poll(id)
    \/ \E id \in 1..Len(handshakes), found \in BOOLEAN : ChannelCallback(id, found)
    \/ Tick

SpecBridge == Init /\ [][NextBridge]_vars

----------------------------------------------------------------------------
(* The bridge under initialize() / cleanup() cycles: a further handshake can *)
(* start while an earlier one has timers left                                *)

\* the page calls bridge.initialize()
BridgeInitializeAgain ==
    /\ bridge.promise = 0 => Len(handshakes) < MaxRestarts
    /\ BridgeCommit(bridgeInitialize(BridgeWorld))

NextRestart ==
    \/ BridgeInitializeAgain
    \/ BridgeCleanup
    \/ HostInjects
    \/ TransportAppears
    \/ \E id \in 1..Len(handshakes) : TimeoutFires(id)
    \/ \E id \in 1..Len(handshakes) : Poll(id)
    \/ \E id \in 1..Len(handshakes), found \in BOOLEAN : ChannelCallback(id, found)
    \/ Tick

SpecRestart == Init /\ [][NextRestart]_vars

----------------------------------------------------------------------------
(* Zooming the view while the bridge is, or is not, initialized *)

\* the user zooms to scale k: d3.zoom dispatches 'zoom' to the renderer's
\* listener; every 'zoomChanged' the controller emits reaches the listener
\* of NetworkManager
Zoom(k) ==
    /\ renderer.transform # k
    /\ renderer' = rendererZoom(renderer, k)
    /\ LET emitted == zoomEvents(k)
       IN brObs' = [op |-> "zoom",
                    emitted |-> emitted # <<>>,
                    forwarded |-> \E i \in 1..Len(emitted) :
                                     managerOnZoomChanged(bridge).forwarded]
    /\ UNCHANGED <<viz, simulation, microtasks, timers, obs, hist, eventVars,
                   bridge, handshakes, host, dataVars, sceneVars>>

NextZoom ==
    \/ BridgeInitialize
    \/ BridgeCleanup
    \/ HostInjects
    \/ TransportAppears
    \/ \E id \in 1..Len(handshakes), found \in BOOLEAN : ChannelCallback(id, found)
    \/ \E k \in ZoomScales : Zoom(k)

SpecZoom == Init /\ [][NextZoom]_vars

----------------------------------------------------------------------------
(* The DataProcessor on its own: processData applied to every input          *)

InitData ==
    /\ CoreInit /\ EventsInit /\ BridgeInit /\ SceneInit
    /\ raw \in RawInputs
    /\ processed = NotProcessed

\* dataProcessor.processData(raw.nodes, raw.edges)
ProcessData ==
    /\ ~processed.done
    /\ processed' = processData(raw.nodes, raw.edges)
    /\ UNCHANGED <<raw, coreVars, eventVars, bridgeVars, sceneVars>>

NextData == ProcessData

SpecData == InitData /\ [][NextData]_vars

\* a new DataProcessor and node records, some of them malformed, to be
\* handed to processData
InitRecords ==
    /\ CoreInit /\ EventsInit /\ BridgeInit /\ SceneInit
    /\ raw \in RecordInputs
    /\ processed = NotProcessed

SpecRecords == InitRecords /\ [][NextData]_vars

----------------------------------------------------------------------------
(* The renderer's updateElements called with one node set after another *)

\* renderer.updateElements(nodes, edges)
UpdateElements(nodes) ==
    /\ \A id \in DOMAIN nodes : scene.made[id] < MaxCreations
    /\ scene' = updateElements(scene, nodes)
    /\ UNCHANGED <<coreVars, eventVars, bridgeVars, dataVars>>

NextScene == \E nodes \in NodeSets : UpdateElements(nodes)

SpecScene == Init /\ [][NextScene]_vars

----------------------------------------------------------------------------
(* Properties *)

\* invocations of animateColorTransition made for a queued descriptor whose
\* awaiting _processTransitionQueue has not resumed: the promise is pending
\* (timer armed) or settled with its continuation still in the microtask queue
Resuming == { microtasks[i].seq :
                i \in { j \in 1..Len(microtasks) : microtasks[j].k = "transition" } }
InFlight == timers \cup Resuming

\* C1: at most one queued transition is in flight: no synchronous block hands
\* more than one descriptor to animateColorTransition, and at no time are two
\* such invocations awaiting (promise unsettled or continuation not yet run).
C1_SingleTransitionInFlight ==
    Cardinality(InFlight) <= 1 /\ Len(obs.started) <= 1

\* a click queued a descriptor while an earlier transition's timer is pending
C1_Witness ==
    obs.op = "nodeClick" /\ timers # {} /\ viz.transitionQueue # <<>>

\* C2: transitions are handed to animateColorTransition in queue order, each
\* once, and when one is started no animation of an earlier queued transition
\* is still running.
C2_FifoNeverOverlapping ==
    /\ \A i \in 1..Len(hist.started) : hist.started[i] = i
    /\ obs.started # <<>> =>
          \A a \in renderer.animations : a.seq = obs.started[Len(obs.started)]

\* C3: a failing transition never blocks the queue: when the continuation
\* runs after a rejection, either the oldest waiting descriptor is started
\* or nothing waits and isTransitioning is false; and a descriptor never
\* waits (nor is isTransitioning set) without a transition in flight.
C3_FailureDoesNotBlock ==
    /\ (obs.op = "transitionResume" /\ obs.outcome = "rejected") =>
          IF obs.started = <<>>
          THEN ~viz.isTransitioning /\ viz.transitionQueue = <<>>
          ELSE /\ viz.isTransitioning
               /\ \A i \in 1..Len(viz.transitionQueue) :
                      viz.transitionQueue[i].seq > obs.started[1]
    /\ viz.transitionQueue # <<>> => InFlight # {}
    /\ viz.isTransitioning => InFlight # {}

\* after a rejected transition the next descriptor was started and one more waits
C3_Witness ==
    /\ obs.op = "transitionResume" /\ obs.outcome = "rejected"
    /\ obs.started # <<>> /\ viz.transitionQueue # <<>>

SelectsQueued == { i \in 1..Len(obs.queued) : obs.queued[i].type = "select" }
UnselectsQueued == { i \in 1..Len(obs.queued) : obs.queued[i].type \in {"unselect", "restore"} }

\* C4: from a select into an empty selection until the selection is empty
\* again, selectionColor is the color of that first-selected node, and every
\* select descriptor queued in that period targets it, also after the
\* first-selected node was itself unselected.
C4_SelectionColorIsFirstColor ==
    /\ viz.selectedNodes # <<>> => viz.selectionColor = hist.firstColor
    /\ \A i \in SelectsQueued : obs.queued[i].targetColor = hist.firstColor

\* a node joins after the first-selected node left, and is sent to a color
\* that is not its own
C4_Witness ==
    /\ obs.op = "nodeClick" /\ hist.firstLeft
    /\ \E i \in SelectsQueued :
          /\ obs.queued[i].nodeId \in DOMAIN renderer.data.color
          /\ obs.queued[i].targetColor # renderer.data.color[obs.queued[i].nodeId]

\* C5 (as stated): every unselect or restore descriptor targets the color the
\* node had just before it was selected, after any sequence of selects,
\* unselects, background clicks and updateData calls.
C5_RestoresPreSelectionColor ==
    \A i \in UnselectsQueued :
        /\ obs.queued[i].nodeId \in DOMAIN hist.preSel
        /\ obs.queued[i].targetColor = hist.preSel[obs.queued[i].nodeId]

\* C5 (amended): every unselect or restore descriptor targets the color the
\* node had when it was first selected since construction (the entry of
\* originalColors, captured once and kept across updateData).
C5_RestoresFirstSelectionColor ==
    \A i \in UnselectsQueued :
        /\ obs.queued[i].nodeId \in DOMAIN hist.firstSel
        /\ obs.queued[i].targetColor = hist.firstSel[obs.queued[i].nodeId]

\* a node is unselected whose color at its latest selection differs from
\* its color at its first selection
C5_Witness ==
    \E i \in UnselectsQueued :
        LET n == obs.queued[i].nodeId
        IN n \in DOMAIN hist.preSel /\ n \in DOMAIN hist.firstSel
           /\ hist.preSel[n] # hist.firstSel[n]

\* C6: a background click on a non-empty selection queues exactly one restore
\* descriptor per selected id, each with target originalColors[id], leaves
\* selectedNodes empty and selectionColor null, and emits selectionCleared once.
C6_BackgroundClickRestoresAll ==
    (obs.op = "backgroundClick" /\ obs.preSelected # <<>>) =>
        /\ Len(obs.queued) = Len(obs.preSelected)
        /\ \A i \in 1..Len(obs.queued) :
              /\ obs.queued[i].type = "restore"
              /\ obs.queued[i].nodeId = obs.preSelected[i]
              /\ obs.queued[i].nodeId \in DOMAIN viz.originalColors
              /\ obs.queued[i].targetColor = viz.originalColors[obs.queued[i].nodeId]
        /\ viz.selectedNodes = <<>>
        /\ viz.selectionColor = Null
        /\ obs.emitted = << "selectionCleared" >>
        /\ ~obs.threw

\* a background click restored two selected nodes
C6_Witness ==
    obs.op = "backgroundClick" /\ Len(obs.preSelected) = 2 /\ Len(obs.queued) = 2

\* C7: a background click on an empty selection queues nothing, emits nothing
\* and leaves the controller's state unchanged.
C7_BackgroundClickOnEmptyIsNoOp ==
    [][ (obs'.op = "backgroundClick" /\ obs' # obs /\ viz.selectedNodes = <<>>) =>
            /\ viz' = viz
            /\ obs'.queued = <<>> /\ obs'.emitted = <<>> /\ obs'.started = <<>>
            /\ microtasks' = microtasks /\ timers' = timers ]_vars

\* a background click on an empty selection while a transition is in flight
C7_Witness ==
    /\ obs.op = "backgroundClick" /\ obs.preSelected = <<>>
    /\ viz.isTransitioning /\ timers # {}

\* C8: the completion callback runs exactly once per run (a run begins at
\* restart()), never a second time for the same run.
C8_CompleteOncePerRun == simulation.completions <= 1

\* C9: overlapping updateData calls do not interleave: when a call hands its
\* node set to the layout engine, the renderer holds the elements of that
\* call, not those of another one.
C9_UpdatesDoNotInterleave ==
    (obs.op = "updateAfterElements" /\ obs.outcome = "resolved") =>
        /\ simulation.nodes = DOMAIN renderer.data.color
        /\ simulation.edges = renderer.data.edges

\* C10: an initialization started after cleanup() succeeds.
C10_ReinitializeAfterCleanup == hist.initAfterCleanup # "failed"

\* C11: cleanup() is idempotent: no call of cleanup() raises an error, and a
\* call made in the state an earlier cleanup() returned in leaves the
\* controller, the renderer, the layout engine and everything pending
\* exactly as that earlier call left them.
C11_CleanupIdempotent ==
    [][ obs'.op = "cleanup" =>
            /\ ~obs'.threw
            /\ obs.op = "cleanup" =>
                  /\ viz' = viz /\ renderer' = renderer /\ simulation' = simulation
                  /\ microtasks' = microtasks /\ timers' = timers ]_vars

\* cleanup() has returned with a transition in flight, a selection color set
\* and an earlier cleanup() behind it: a further call starts from this state
C11_Witness ==
    /\ obs.op = "cleanup" /\ hist.initAfterCleanup = "failed"
    /\ viz.isTransitioning /\ viz.selectionColor # Null

\* C12: after cleanup() all selection and transition state is cleared:
\* selectedNodes, originalColors and transitionQueue are empty, selectionColor
\* is null, isTransitioning and isInitialized are false.
C12_CleanupClearsAllState ==
    obs.op = "cleanup" =>
        /\ viz.selectedNodes = <<>>
        /\ viz.originalColors = NoColors
        /\ viz.transitionQueue = <<>>
        /\ viz.selectionColor = Null
        /\ ~viz.isTransitioning
        /\ ~viz.isInitialized

SelectionState(v) ==
    <<v.selectedNodes, v.originalColors, v.selectionColor, v.transitionQueue>>

UpdateOps == {"updateData", "initResume", "updateAfterInit", "updateAfterElements"}

\* C13: selection state persists across data updates: every synchronous
\* block of updateData (and of the _initialize it awaits) leaves
\* selectedNodes, originalColors, selectionColor and transitionQueue unchanged.
C13_UpdateKeepsSelection ==
    [][ obs'.op \in UpdateOps => SelectionState(viz') = SelectionState(viz) ]_vars

\* an updateData call resolved while a node is selected and a descriptor waits
C13_Witness ==
    /\ obs.op = "updateAfterElements" /\ obs.outcome = "resolved"
    /\ viz.selectedNodes # <<>> /\ viz.transitionQueue # <<>>
    /\ viz.selectionColor # Null

\* the callbacks of an event name as the EventManager holds them
ListenersOf(name) ==
    IF name \in DOMAIN events.listeners THEN events.listeners[name] ELSE <<>>

\* the callbacks whose registration for name is in force, oldest first
InForce(name) ==
    LET ps == SelectSeq(evObs.order, LAMBDA p : p[1] = name)
    IN [i \in 1..Len(ps) |-> ps[i][2]]

\* C14: emit(name, data) invokes every callback registered for name, also
\* those that come after a callback that throws, and no exception of a
\* subscriber leaves emit.
C14_EmitRunsAllAndCatches ==
    evObs.op = "emit" =>
        /\ Len(evObs.invoked) = Len(ListenersOf(evObs.name))
        /\ \A cb \in Range(ListenersOf(evObs.name)) : SeqHas(evObs.invoked, cb)
        /\ ~evObs.propagated

\* an emit called a throwing callback and then one more
C14_Witness ==
    /\ evObs.op = "emit"
    /\ \E i \in 1..Len(evObs.invoked) :
          evObs.invoked[i] \in Throwing /\ i < Len(evObs.invoked)

\* C15: emit invokes the callbacks of one event name in the order in which
\* their registrations were made with on(), after any sequence of on and off
\* calls (an on() for a callback that is registered is not a registration).
C15_EmitInRegistrationOrder ==
    evObs.op = "emit" => evObs.invoked = InForce(evObs.name)

\* an emit called three callbacks, after an off() had removed one
C15_Witness ==
    evObs.op = "emit" /\ Len(evObs.invoked) = 3 /\ evObs.anyOff

\* the pairs <<name, callback>> the EventManager holds
Registered ==
    { p \in EventNames \X Callbacks :
        p[1] \in DOMAIN events.listeners /\ SeqHas(events.listeners[p[1]], p[2]) }

\* C16: after off(name, cb) the callback is no longer registered, however
\* often on(name, cb) had been called, and an emit does not invoke it; every
\* other registration stays; after cleanup() nothing is registered and no
\* emit invokes any callback.
C16_OffAndCleanupUnregister ==
    /\ Registered = Range(evObs.order)
    /\ evObs.op = "off" => <<evObs.name, evObs.cb>> \notin Registered
    /\ evObs.op = "emit" =>
          Range(evObs.invoked) = { p[2] : p \in { q \in Range(evObs.order) : q[1] = evObs.name } }
    /\ evObs.op = "cleanup" =>
          /\ Registered = {}
          /\ \A n \in EventNames : eventsEmit(events, n).invoked = <<>>

\* an off() removed a callback that on() had been called for twice, while
\* another callback of the same name and one of another name stay registered
C16_Witness ==
    /\ evObs.op = "off" /\ evObs.removed /\ evObs.repeated
    /\ ListenersOf(evObs.name) # <<>>
    /\ \E n \in EventNames \ {evObs.name} : ListenersOf(n) # <<>>

\* C17: the handshake is bounded: the promise of initialize() is settled
\* once 5 s have passed since the call, whatever the host does.
C17_HandshakeSettlesInTime ==
    \A id \in 1..Len(handshakes) :
        handshakes[id].state = "pending" => handshakes[id].age <= TimeoutTicks

TimedOut(id) == handshakes[id].state = "rejected" /\ handshakes[id].reason = "timeout"

\* a handshake was rejected by its timeout after the transport had appeared
\* late and the web channel never called back
C17_Witness ==
    \E id \in 1..Len(handshakes) :
        TimedOut(id) /\ handshakes[id].channel /\ ~host.bridge

\* C18: after a handshake failed by timeout there is no retry: no poll of
\* it runs any more, and as long as no new initialize() was started (the
\* bridge still holds that promise) isInitialized stays false.
C18_NoRetryAfterTimeout ==
    \A id \in 1..Len(handshakes) :
        TimedOut(id) =>
            /\ ~handshakes[id].retried
            /\ bridge.promise = id => ~bridge.isInitialized

\* C19: zoomChanged(scale) is always invoked on zoom: every zoom change of
\* the view makes the controller emit zoomChanged, and with the bridge
\* initialized the scale is forwarded to the host.
C19_ZoomReachesHost ==
    (brObs.op = "zoom" /\ bridge.isInitialized /\ bridge.events) =>
        brObs.emitted /\ brObs.forwarded

\* the ids of the processed nodes
ProcessedIds == { processed.nodes[i].id : i \in 1..Len(processed.nodes) }

Resolvable(e) == e.from \in ProcessedIds /\ e.to \in ProcessedIds

\* C20: after processData every edge of processedEdges has both endpoints
\* in processedNodes; the input edges with both endpoints resolvable are all
\* kept, in order and with duplicates, and the others are absent and logged
\* as errors.
C20_EdgesHaveBothEndpoints ==
    processed.done =>
        /\ \A i \in 1..Len(processed.edges) :
              LET e == processed.edges[i]
              IN /\ \E n \in 1..Len(processed.nodes) :
                        processed.nodes[n] = e.source /\ e.source.id = e.from
                 /\ \E n \in 1..Len(processed.nodes) :
                        processed.nodes[n] = e.target /\ e.target.id = e.to
        /\ [i \in 1..Len(processed.edges) |->
                [from |-> processed.edges[i].from, to |-> processed.edges[i].to]]
             = SelectSeq(raw.edges, Resolvable)
        /\ processed.errors = SelectSeq(raw.edges, LAMBDA e : ~Resolvable(e))

\* of two input edges one was kept and the one whose target matches no node
\* was dropped and logged
C20_Witness ==
    /\ processed.done
    /\ Len(processed.edges) = 1 /\ Len(processed.errors) = 1
    /\ processed.errors[1].from \in ProcessedIds

\* C21: after processData the degree of every processed node is the number
\* of edges of processedEdges incident to it, counted once for each endpoint
\* role (from, to) the node has.
C21_DegreeCountsProcessedEdges ==
    processed.done =>
        \A n \in 1..Len(processed.nodes) :
            processed.nodes[n].degree =
                Cardinality({ i \in 1..Len(processed.edges) :
                                processed.edges[i].from = processed.nodes[n].id })
                + Cardinality({ i \in 1..Len(processed.edges) :
                                  processed.edges[i].to = processed.nodes[n].id })

\* the values of the nodes handed to processData
RawValues == { raw.nodes[i].value : i \in 1..Len(raw.nodes) }

\* size s, a fraction, equals the whole number k
SizeIs(s, k) == s[1] = k * s[2]

\* C22: for at least two nodes whose values are not all equal, every node
\* with the minimum value has size 12, every node with the maximum value has
\* size 48, and every size is the linear scale of the node's value from
\* [minValue, maxValue] to [12, 48], so within [12, 48].
C22_SizeIsLinearScale ==
    (processed.done /\ Len(raw.nodes) >= 2 /\ Cardinality(RawValues) >= 2) =>
        LET lo == CHOOSE m \in RawValues : \A v \in RawValues : m <= v
            hi == CHOOSE m \in RawValues : \A v \in RawValues : v <= m
        IN \A n \in 1..Len(processed.nodes) :
              LET nd == processed.nodes[n]
              IN /\ nd.value = lo => SizeIs(nd.size, 12)
                 /\ nd.value = hi => SizeIs(nd.size, 48)
                 /\ nd.size[1] * (hi - lo) = nd.size[2] * (12 * (hi - lo) + 36 * (nd.value - lo))
                 /\ 12 * nd.size[2] <= nd.size[1] /\ nd.size[1] <= 48 * nd.size[2]

\* the sequence numbers a descriptor can get
SeqNumbers == 1..(MaxTransitions + Cardinality(NodeIds))

Idle == viz.transitionQueue = <<>> /\ ~viz.isTransitioning

\* C23 (as stated): every descriptor passed to _queueTransition is eventually
\* started, and the controller eventually stays with transitionQueue empty
\* and isTransitioning false.
C23_EveryDescriptorStarted ==
    /\ \A k \in SeqNumbers : (hist.nQueued >= k) ~> SeqHas(hist.started, k)
    /\ <>[]Idle

\* C23 (amended): every descriptor passed to _queueTransition is eventually
\* started unless cleanup() is called, which discards the waiting ones; and
\* the controller eventually stays with transitionQueue empty and
\* isTransitioning false.
C23_QueueDrains ==
    /\ \A k \in SeqNumbers :
          (hist.nQueued >= k) ~> (SeqHas(hist.started, k) \/ hist.cleaned)
    /\ <>[]Idle

\* three descriptors were queued and started, the last ones after waiting,
\* and the controller is idle, without any cleanup()
C23_Witness ==
    /\ Idle /\ ~hist.cleaned /\ InFlight = {}
    /\ hist.nQueued >= 3 /\ Len(hist.started) = hist.nQueued

\* C24: in every state reachable through node clicks, background clicks,
\* updateData and cleanup, selectionColor is null exactly when selectedNodes
\* is empty.
C24_SelectionColorNullIffEmpty ==
    (viz.selectionColor = Null) <=> (viz.selectedNodes = <<>>)

\* C25: originalColors[id] is captured once: it holds the color node id had
\* when it was first selected (since construction or the last cleanup()),
\* and no later select, unselect, restore-all or re-selection changes or
\* removes the entry.
C25_OriginalColorCapturedOnce ==
    viz.originalColors = hist.firstSel

\* a node is selected again, after it was unselected and its color was
\* changed by updateData, and its entry still holds the first color
C25_Witness ==
    /\ obs.op = "nodeClick"
    /\ \E i \in SelectsQueued :
          LET n == obs.queued[i].nodeId
          IN /\ n \in DOMAIN viz.originalColors
             /\ n \in DOMAIN renderer.data.color
             /\ viz.originalColors[n] # renderer.data.color[n]

\* C26: maxTicks is a hard cap on a run: once a run has delivered maxTicks
\* ticks, the solver performs no further step in that run.  (A solver step is
\* the only operation that lowers alpha, and every solver step moves the
\* nodes.)
C26_MaxTicksIsHardCap ==
    [][ simulation.tickCount >= maxTicks =>
            ~(simulation'.alpha < simulation.alpha) ]_vars

C28_ProgressMonotone ==
    [][ LET s == simulation
            t == simulation'
        IN /\ (t.tickCount > s.tickCount) =>
                 /\ t.tickCount = s.tickCount + 1
                 /\ t.progress = (200 * t.tickCount + maxTicks) \div (2 * maxTicks)
           /\ (t.alpha <= s.alpha) => t.progress >= s.progress
           /\ t.progress \in 0..100
           /\ (t.completions > s.completions /\ t.tickCount > s.tickCount) =>
                 t.progress = 100 ]_vars

\* C29: cleanup() is a hard cancellation point for transitions: after
\* cleanup() has returned, no completion timer of an animation fires (so no
\* transition-complete callback runs), no continuation of
\* _processTransitionQueue runs and no descriptor is started.
C29_CleanupCancelsTransitions ==
    [][ hist.cleaned =>
            /\ timers' = timers
            /\ obs'.op \notin {"timerFires", "transitionResume"}
            /\ hist'.started = hist.started ]_vars

\* C30: QtBridge.cleanup() cancels a pending handshake: from cleanup() until
\* initialize() is called again (_initializationPromise is null in between)
\* the bridge stays uninitialized: isInitialized false, bridge and events
\* null, even if the host channel appears meanwhile.
C30_CleanupCancelsHandshake ==
    bridge.promise = 0 =>
        /\ ~bridge.isInitialized
        /\ ~bridge.bridge
        /\ ~bridge.events

\* C31: the color-flow wave of animateColorTransition animates every node
\* of the connectedNodes it is given: once the animation of a node has
\* started with a queue of connected nodes, each of them gets its own
\* animation of the same transition.
C31_WaveAnimatesConnected ==
    \A k \in SeqNumbers : \A m \in NodeIds :
        (\E a \in renderer.animations : a.seq = k /\ m \in Range(a.wave)) ~>
            (\E b \in renderer.animations : b.seq = k /\ b.node = m)

\* C32: the promise returned by animateColorTransition resolves, it never
\* rejects, whether or not the node has incident edges: no continuation of
\* _processTransitionQueue finds its promise rejected.
C32_PromiseAlwaysResolves ==
    \A i \in 1..Len(microtasks) :
        microtasks[i].k = "transition" => microtasks[i].outcome = "resolved"

\* C33: selected nodes stay visually stable under hover: while selectedNodes
\* is non-empty, hovering a node never lowers the opacity of a selected node,
\* and after the pointer has left every node is at full opacity.
C33_SelectedStableUnderHover ==
    [][ viz.selectedNodes # <<>> =>
            /\ obs'.op = "nodeHover" =>
                  (Range(viz.selectedNodes) \cap renderer'.dimmed) \subseteq renderer.dimmed
            /\ obs'.op = "nodeLeave" => renderer'.dimmed = {} ]_vars

\* C34: handling drag 'start' and handling drag 'end' complete without
\* error (marking the node fixed, and unmarking it, through the layout
\* engine).
C34_DragFixesNode ==
    obs.op = "nodeDrag" => ~obs.threw

\* the node elements of node id
ElementsOf(sc, id) == { e \in sc.nodeElements : e.id = id }

\* C35: updateElements reconciles by id: after a call there is exactly one
\* node element per node id of that call and none for any other id, and the
\* element of an id present before and after the call is the same element.
C35_ReconcilesById ==
    [][ /\ \A id \in NodeIds :
              Cardinality(ElementsOf(scene', id)) =
                  IF id \in DOMAIN scene'.nodes THEN 1 ELSE 0
        /\ \A e \in scene.nodeElements :
              e.id \in DOMAIN scene'.nodes =>
                  \E f \in scene'.nodeElements : f.id = e.id /\ f.gen = e.gen ]_vars

\* a first-created element has outlived a call that changed its node's size
\* or color, next to an element that was removed and created again
C35_Witness ==
    /\ \E e \in scene.nodeElements :
          e.gen = 1 /\ (e.r # e.datum.size \/ e.fill # e.datum.color)
    /\ \E f \in scene.nodeElements : f.gen > 1

\* C36: after updateElements(nodes, edges) every node element, the retained
\* ones included, displays the size and the color of the node with its id
\* in the nodes of that call.
C36_RetainedShowNewAttributes ==
    \A e \in scene.nodeElements :
        /\ e.id \in DOMAIN scene.nodes
        /\ e.r = scene.nodes[e.id].size
        /\ e.fill = scene.nodes[e.id].color

\* a node record with its id and its label
WellFormedNode(node) == node.id # Undefined /\ node.label # Undefined

\* C37: a malformed node record (missing id or missing label) is dropped by
\* processData: processedNodes holds the well-formed records of the input,
\* in order, and no other.
C37_MalformedNodesDropped ==
    processed.done =>
        [i \in 1..Len(processed.nodes) |->
            [id |-> processed.nodes[i].id, label |-> processed.nodes[i].label,
             value |-> processed.nodes[i].value]]
          = SelectSeq(raw.nodes, WellFormedNode)

\* the last block was a click that unselected a node
UnselectClick ==
    /\ obs.op = "nodeClick" /\ ~obs.threw
    /\ \E i \in 1..Len(obs.queued) : obs.queued[i].type = "unselect"

\* C38: unselecting a node by click emits exactly one nodeUnselected event
\* and queues the unselect descriptor only; when the node was the last
\* selected one, selectionCleared is emitted too, before nodeUnselected, and
\* no restore descriptor is queued.
C38_UnselectEvents ==
    UnselectClick =>
        /\ Len(obs.queued) = 1
        /\ obs.emitted = IF viz.selectedNodes = <<>>
                         THEN <<"selectionCleared", "nodeUnselected">>
                         ELSE <<"nodeUnselected">>

\* the last selected node was unselected by a click
C38_Witness ==
    /\ UnselectClick
    /\ viz.selectedNodes = <<>>
    /\ SeqHas(obs.emitted, "selectionCleared")

\* C39: initialization happens at most once per controller: whatever the
\* interleaving of the constructor's _initialize with updateData calls made
\* before it has finished, the container holds at most one drawing surface.
C39_SingleDrawingSurface == renderer.svgs <= 1

\* C40: at most one handshake is active per QtBridge at any time, for any
\* sequence of initialize() and cleanup() calls: there is never more than
\* one pending promise, one polling loop and one timeout running.
C40_SingleHandshake ==
    LET ids == 1..Len(handshakes)
    IN /\ Cardinality({ id \in ids : handshakes[id].state = "pending" }) <= 1
       /\ Cardinality({ id \in ids : handshakes[id].poll # "none" }) <= 1
       /\ Cardinality({ id \in ids : handshakes[id].timeout }) <= 1

====
